---------------------------- MODULE Spec2Model ----------------------------
(***************************************************************************)
(* Model of the podcast processing backend:                               *)
(*   - Backend/app.py: process_audio_file (the job orchestrator), the      *)
(*     time_limit context manager (SIGALRM branch and timer-thread         *)
(*     branch), the writes of <job_id>_results.json and get_results;       *)
(*   - Backend/diarization.py: the same-speaker merge pass of              *)
(*     _process_diarization_results / _process_in_chunks, the chunk loop   *)
(*     with its speaker mapping, and _enforce_two_speakers;                *)
(*   - Backend/summarization.py: the fan-out of _summarize_long_text and   *)
(*     the lazy loads of the tokenizer and the model;                      *)
(*   - Backend/audio_processing.py: trim_audio.                            *)
(*                                                                         *)
(* Strings are abstracted by what the code asks of them: a transcript is   *)
(* a record [tag, err, words] where err is startswith("Error:") and words  *)
(* is len(s.split()).  Times of speaker turns are hundredths of a second   *)
(* (the code rounds them with round(x, 2)).                                *)
(***************************************************************************)
EXTENDS Integers, Sequences, FiniteSets, TLC

(***************************************************************************)
(* Program constants                                                       *)
(***************************************************************************)
DIARIZATION_TIMEOUT == 300
TOPIC_DETECTION_TIMEOUT == 120
SUMMARIZATION_TIMEOUT == 60
MinWords == 30          \* len(transcript.split()) < 30 skips topics/summaries
MinSegments == 5        \* len(segments) < 5 skips diarization
MinDuration == 10       \* total_audio_duration < 10 skips diarization
collar == 15            \* self.collar = 0.15 s, in hundredths of a second

(***************************************************************************)
(* Bounds of the model                                                     *)
(***************************************************************************)
MaxTurns == 3           \* longest list of raw speaker turns

Stages == {"diarization", "topics", "summarization"}

\* int(os.environ.get("<STAGE>_TIMEOUT", default)): the default, or 0 when the
\* environment disables the deadline
Limits(stage) ==
    CASE stage = "diarization" -> {0, DIARIZATION_TIMEOUT}
      [] stage = "topics" -> {0, TOPIC_DETECTION_TIMEOUT}
      [] OTHER -> {0, SUMMARIZATION_TIMEOUT}

VARIABLES
    pc,               \* position of process_audio_file
    results,          \* the results dictionary
    file,             \* UPLOAD_DIR / f"{job_id}_results.json"
    platform,         \* "unix" (SIGALRM branch) or "windows" (timer thread)
    HF_ACCESS_TOKEN,  \* TRUE iff the credential is configured
    alarm,            \* pending SIGALRM: "off" or "armed"
    timer,            \* threading.Timer of time_limit: "none", "running", "fired"
    timeout_occurred, \* the flag the timer thread sets
    pipeline,         \* SpeakerDiarization.pipeline: "unset", "ready", "none"
    invoked,          \* collaborators whose work method has been called
    transcribeRet,    \* what transcriber.transcribe did
    diarRet,          \* what diarizer.diarize returned
    extRet,           \* what ExtractiveSummarizer.summarize did
    absRet,           \* what AbstractiveSummarizer.summarize did
    expiredAt,        \* pc at which the current stage's deadline expired, or "none"
    diarExpired,      \* the deadline of the diarization stage expired
    overran,          \* a stage body ran on after its deadline had expired
    opens,            \* number of open(results_file, 'w') that succeeded
    excWriteFailed,   \* the write of the minimal error record raised
    lastPoll,         \* what the last get_results(job_id) answered
    raw_segments,     \* input of the merge pass
    merged_segments,  \* output of the merge pass
    remerged,         \* the merge pass applied to its own output
    mpc,              \* position of the merge pass driver
    segments,         \* argument of _enforce_two_speakers
    enforced,         \* what _enforce_two_speakers returned
    epc,              \* position of the _enforce_two_speakers driver
    turns,            \* who speaks when in a long recording
    relabel,          \* the labels the pipeline gives the speakers, per run
    whole_segments,   \* the recording diarized in one piece
    all_segments,     \* all_segments of _process_in_chunks, then what it returned
    cpc,              \* position of the chunking driver
    chunk_i,          \* the chunk the loop of _process_in_chunks is at
    speaker_mapping,  \* chunk-local label -> global speaker name
    chunk_failed,     \* the chunks on which the pipeline raised
    running,          \* the job the event loop is executing, or "none"
    jpc,              \* position of each of two jobs
    sigalrm,          \* the process-wide pending alarm: who armed it, or "none"
    jrecord,          \* outcome of each stage in each job's record
    jfired,           \* the stages whose own deadline expired, per job
    chunks,           \* number of chunks of _summarize_long_text
    futures,          \* state of each submitted _summarize_chunk call
    chunk_summaries,  \* the (chunk_idx, summary) pairs collected so far
    intermediate_summary, \* the joined summaries
    lpc,              \* position of _summarize_long_text
    max_workers,      \* size of the thread pool of _summarize_long_text
    chunk_long,       \* per submitted chunk: it has at least 30 words
    wpc,              \* position of each submitted _summarize_chunk call
    self_tokenizer,   \* AbstractiveSummarizer._tokenizer: "None" or "loaded"
    self_model,       \* AbstractiveSummarizer._model: "None" or "loaded"
    self_model_available, \* AbstractiveSummarizer._model_available
    tokenizer_loads,  \* number of T5Tokenizer.from_pretrained that succeeded
    model_loads,      \* number of T5ForConditionalGeneration.from_pretrained
    tpc,              \* position of AudioProcessor.trim_audio
    file_exists,      \* os.path.exists(file_path)
    start_time,       \* argument and local of trim_audio
    end_time,         \* argument and local of trim_audio
    duration,         \* float(probe['format']['duration'])
    probed,           \* ffmpeg.probe returned the duration
    trim_calls,       \* the calls self.trim(file_path, start_time, end_time)
    trim_error        \* the exception trim_audio was left with, or "none"

jobVars == <<pc, results, file, platform, HF_ACCESS_TOKEN, alarm, timer,
             timeout_occurred, pipeline, invoked, transcribeRet, diarRet, extRet,
             absRet, expiredAt, diarExpired, overran, opens, excWriteFailed>>
mergeVars == <<raw_segments, merged_segments, remerged, mpc>>
enforceVars == <<segments, enforced, epc>>
chunkVars == <<turns, relabel, whole_segments, all_segments, cpc, chunk_i,
               speaker_mapping, chunk_failed>>
jobsVars == <<running, jpc, sigalrm, jrecord, jfired>>
longVars == <<chunks, futures, chunk_summaries, intermediate_summary, lpc>>
lazyVars == <<max_workers, chunk_long, wpc, self_tokenizer, self_model,
              self_model_available, tokenizer_loads, model_loads>>
trimVars == <<tpc, file_exists, start_time, end_time, duration, probed, trim_calls,
              trim_error>>
sideVars == <<enforceVars, chunkVars, jobsVars, longVars, lazyVars, trimVars>>
vars == <<jobVars, lastPoll, mergeVars, sideVars>>

(***************************************************************************)
(* Values of the results dictionary                                        *)
(***************************************************************************)
NoStr == [tag |-> "ABSENT", err |-> FALSE, words |-> 0]
EmptyStr == [tag |-> "empty", err |-> FALSE, words |-> 0]
ErrorMarker(tag) == [tag |-> tag, err |-> TRUE, words |-> 4]
Text(w) == [tag |-> "text", err |-> FALSE, words |-> w]
BadText == [tag |-> "not_a_string", err |-> FALSE, words |-> 1]

NoSegments == [src |-> "ABSENT", n |-> 0, maxEnd |-> 0]
EmptySegments == [src |-> "empty_list", n |-> 0, maxEnd |-> 0]
TranscriptSegments(n, maxEnd) == [src |-> "transcriber", n |-> n, maxEnd |-> maxEnd]

BlankRecord ==
    [status |-> "ABSENT", error |-> "ABSENT", warning |-> "ABSENT",
     metadata |-> "ABSENT", transcript |-> NoStr, segments |-> NoSegments,
     diarization |-> "ABSENT", topics |-> "ABSENT",
     abstractive_summary |-> "ABSENT", extractive_summary |-> "ABSENT"]

\* results = {"job_id": job_id, "status": "completed", "error": None}
InitialResults == [BlankRecord EXCEPT !.status = "completed", !.error = "None"]

\* {"job_id": job_id, "status": "error", "error": str(e)}
MinimalErrorRecord == [BlankRecord EXCEPT !.status = "error", !.error = "str(e)"]

NoFile == [state |-> "absent", content |-> BlankRecord, by |-> "nobody"]

\* not results.get("transcript") or results.get("transcript").startswith("Error:")
Truthy(s) == s.tag # "ABSENT" /\ s.tag # "empty"
StartsWithError(s) == s.err
NoValidTranscript(s) == ~Truthy(s) \/ StartsWithError(s)


(***************************************************************************)
(* The collaborators.  transcription.py and topic_detection.py are not     *)
(* among the sources; their outcomes follow the interface contracts        *)
(* (a conforming result, a non-conforming one, or an exception).           *)
(***************************************************************************)
WordCounts == {MinWords - 1, MinWords}
SegCounts == {0, MinSegments - 1, MinSegments}
MaxEnds == {MinDuration - 1, MinDuration}

TranscribeOutcomes ==
    {"dict", "dict_empty_text", "dict_text_not_str", "str", "str_error",
     "other_type", "raise"}
TopicOutcomes == {"list", "malformed", "raise"}
SummaryOutcomes == {"ok", "malformed", "raise"}
DiarizeReturns == {"sentinel", "segments"}

(***************************************************************************)
(* time_limit(seconds)                                          app.py 128 *)
(***************************************************************************)
\* entering the with-block: signal.alarm(seconds) on the SIGALRM branch,
\* threading.Timer(seconds, timeout_handler).start() on the other branch
time_limit_enter(seconds) ==
    IF platform = "unix" /\ seconds > 0
    THEN /\ alarm' = "armed"
         /\ UNCHANGED <<timer, timeout_occurred>>
    ELSE /\ timer' = IF seconds > 0 THEN "running" ELSE "none"
         /\ timeout_occurred' = FALSE
         /\ UNCHANGED alarm

\* the finally-clauses: signal.alarm(0), timer.cancel()
time_limit_finally ==
    /\ alarm' = "off"
    /\ timer' = "none"
    /\ timeout_occurred' = FALSE

\* after the body returned normally: `if timeout_occurred: raise TimeoutError`
\* (timer branch only; the SIGALRM branch has no such check)
RaisesAtExit == timeout_occurred

StageOf(p) ==
    CASE p \in {"diar_ctor", "diar_call", "diar_exit"} -> "diarization"
      [] p \in {"topic_check", "topic_call", "topic_exit"} -> "topics"
      [] p \in {"summ_check", "ext_call", "abs_call", "summ_exit"} -> "summarization"
      [] OTHER -> "none"

InStage == StageOf(pc) # "none"

\* a summarization timeout handler that resets one of the two summaries only
OnTimeoutErrorOneSummary(stage, r) ==
    CASE stage = "diarization" -> [r EXCEPT !.diarization = "err_timed_out"]
      [] stage = "topics" -> [r EXCEPT !.topics = "empty_list"]
      [] OTHER -> [r EXCEPT !.abstractive_summary = "timed_out"]

\* the `except TimeoutError` clause of each stage               app.py 471, 505, 556
OnTimeoutError(stage, r) ==
    CASE stage = "diarization" -> [r EXCEPT !.diarization = "err_timed_out"]
      [] stage = "topics" -> [r EXCEPT !.topics = "empty_list"]
      [] OTHER -> [r EXCEPT !.abstractive_summary = "timed_out",
                            !.extractive_summary = "timed_out"]

\* the `except Exception` clause of each stage                  app.py 474, 508, 560
OnException(stage, r) ==
    CASE stage = "diarization" -> [r EXCEPT !.diarization = "err_exception"]
      [] stage = "topics" -> [r EXCEPT !.topics = "empty_list"]
      [] OTHER -> [r EXCEPT !.abstractive_summary = "err_exception",
                            !.extractive_summary = "err_exception"]

\* summarization placed before topic detection
AfterStageSwapped(stage) ==
    CASE stage = "diarization" -> "summ_enter"
      [] stage = "topics" -> "final_save"
      [] OTHER -> "topic_enter"

AfterStage(stage) ==
    CASE stage = "diarization" -> "topic_enter"
      [] stage = "topics" -> "summ_enter"
      [] OTHER -> "final_save"

\* a body step of the stage ran although the deadline had already expired
Overrun == overran \/ expiredAt # "none"

\* normal completion of a with-block: the timer branch raises TimeoutError
\* when the flag is set, then the finally-clause runs
LeaveStage(stage) ==
    /\ results' = IF RaisesAtExit THEN OnTimeoutError(stage, results) ELSE results
    /\ pc' = AfterStage(stage)
    /\ time_limit_finally

(***************************************************************************)
(* Initial state: the job has been scheduled, nothing has run.             *)
(***************************************************************************)
MergeIdle ==
    /\ raw_segments = <<>>
    /\ merged_segments = <<>>
    /\ remerged = <<>>
    /\ mpc = "idle"

EnforceIdle ==
    /\ segments = <<>>
    /\ enforced = <<>>
    /\ epc = "idle"

ChunksIdle ==
    /\ turns = <<>>
    /\ relabel = <<>>
    /\ whole_segments = <<>>
    /\ all_segments = <<>>
    /\ cpc = "idle"
    /\ chunk_i = 0
    /\ speaker_mapping = <<>>
    /\ chunk_failed = {}

JobsIdle ==
    /\ running = "none"
    /\ jpc = <<>>
    /\ sigalrm = "none"
    /\ jrecord = <<>>
    /\ jfired = <<>>

LongIdle ==
    /\ chunks = 0
    /\ futures = <<>>
    /\ chunk_summaries = <<>>
    /\ intermediate_summary = <<>>
    /\ lpc = "idle"

LazyIdle ==
    /\ max_workers = 0
    /\ chunk_long = <<>>
    /\ wpc = <<>>
    /\ self_tokenizer = "None"
    /\ self_model = "None"
    /\ self_model_available = FALSE
    /\ tokenizer_loads = 0
    /\ model_loads = 0

TrimIdle ==
    /\ tpc = "idle"
    /\ file_exists = FALSE
    /\ start_time = 0
    /\ end_time = 0
    /\ duration = 0
    /\ probed = FALSE
    /\ trim_calls = <<>>
    /\ trim_error = "none"

JobScheduled ==
    /\ pc = "start"
    /\ results = BlankRecord
    /\ file = NoFile
    /\ alarm = "off"
    /\ timer = "none"
    /\ timeout_occurred = FALSE
    /\ pipeline = "unset"
    /\ invoked = {}
    /\ transcribeRet = "none"
    /\ diarRet = "none"
    /\ extRet = "none"
    /\ absRet = "none"
    /\ expiredAt = "none"
    /\ diarExpired = FALSE
    /\ overran = FALSE
    /\ opens = 0
    /\ excWriteFailed = FALSE
    /\ lastPoll = "none"

Init ==
    /\ JobScheduled
    /\ platform \in {"unix", "windows"}
    /\ HF_ACCESS_TOKEN \in BOOLEAN
    /\ MergeIdle
    /\ EnforceIdle
    /\ ChunksIdle
    /\ JobsIdle
    /\ LongIdle
    /\ LazyIdle
    /\ TrimIdle

timeVars == <<alarm, timer, timeout_occurred>>
ghostVars == <<invoked, transcribeRet, diarRet, extRet, absRet, expiredAt, diarExpired,
              overran>>
\* what no step of the job changes: its environment, the reader, the merge pass
envVars == <<platform, HF_ACCESS_TOKEN, lastPoll, mergeVars, sideVars>>
ioVars == <<file, opens, excWriteFailed>>

(***************************************************************************)
(* process_audio_file, up to the transcript gate           app.py 337-442 *)
(***************************************************************************)
\* results = {...}, AudioProcessor() (its __init__ is `pass`), extract_metadata
ExtractMetadata ==
    /\ pc = "start"
    /\ \E ok \in BOOLEAN :
          results' = [InitialResults EXCEPT
                         !.metadata = IF ok THEN "metadata" ELSE "err_metadata"]
    /\ pc' = "transcriber"
    /\ UNCHANGED <<ioVars, envVars, timeVars, pipeline, ghostVars>>

\* a return that skips the early save
ReturnWithoutSaving == "done"

\* no return at line 402: the job goes on to transcription
ProceedToTranscription == "transcribe"

\* lines 396-402: the record is saved early, then the function returns
AfterTranscriberFailure == "early_save"

\* transcriber = WhisperTranscriber(model_size=whisper_size)
CreateTranscriber ==
    /\ pc = "transcriber"
    /\ \E o \in {"ok", "mock", "raise"} :
          CASE o = "ok" -> /\ results' = results
                           /\ pc' = "transcribe"
            [] o = "mock" -> /\ results' = [results EXCEPT !.warning = "mock_mode"]
                             /\ pc' = "transcribe"
            [] OTHER -> /\ results' = [results EXCEPT
                                  !.warning = "transcriber_init",
                                  !.transcript = ErrorMarker("init_error"),
                                  !.segments = EmptySegments]
                        /\ pc' = AfterTranscriberFailure
    /\ UNCHANGED <<ioVars, envVars, timeVars, pipeline, ghostVars>>

\* every returned value is taken as the transcript, whatever its type
TranscriptOfUnchecked(o, w) == Text(w)

\* what lines 411-430 store for each outcome of transcriber.transcribe
TranscriptOf(o, w) ==
    CASE o = "dict" -> Text(w)
      [] o = "dict_empty_text" -> EmptyStr
      [] o = "dict_text_not_str" -> BadText
      [] o = "str" -> Text(w)
      [] o = "str_error" -> ErrorMarker("returned_error")
      [] o = "other_type" -> ErrorMarker("unexpected_type")
      [] OTHER -> ErrorMarker("str(e)")

SegmentsOf(o, n, e) ==
    IF o \in {"dict", "dict_empty_text", "dict_text_not_str"} /\ n > 0
    THEN TranscriptSegments(n, e)
    ELSE EmptySegments

Transcribe ==
    /\ pc = "transcribe"
    /\ \E o \in TranscribeOutcomes, w \in WordCounts, n \in SegCounts, e \in MaxEnds :
          /\ (o \notin {"dict", "str"}) => w = MinWords
          /\ (o # "dict" \/ n = 0) => e = MinDuration
          /\ (o \notin {"dict", "dict_empty_text"}) => n = 0
          /\ results' = [results EXCEPT !.transcript = TranscriptOf(o, w),
                                        !.segments = SegmentsOf(o, n, e)]
          /\ transcribeRet' = o
    /\ invoked' = invoked \cup {"transcriber"}
    /\ pc' = "gate"
    /\ UNCHANGED <<ioVars, envVars, timeVars, pipeline, diarRet, extRet, absRet,
                   expiredAt, diarExpired, overran>>

\* a gate that looks for the error marker only and lets an empty transcript pass
GateStopsOnMarkerOnly(s) == StartsWithError(s)

\* line 433; .startswith of a value that is no string raises AttributeError,
\* which only the outermost handler catches
GateStops(s) == NoValidTranscript(s)

TranscriptGate ==
    /\ pc = "gate"
    /\ pc' = IF results.transcript = BadText THEN "exc_handler"
             ELSE IF GateStops(results.transcript) THEN "gate_save"
             ELSE "diar_gate"
    /\ UNCHANGED <<results, ioVars, envVars, timeVars, pipeline, ghostVars>>

(***************************************************************************)
(* Writing the result file                    app.py 397-399, 437-439,     *)
(*                                            570-572, 579-588             *)
(***************************************************************************)
SavePcs == {"early_save", "gate_save", "final_save"}
DumpPcs == {"early_dump", "gate_dump", "final_dump"}
DumpOf(p) ==
    CASE p = "early_save" -> "early_dump"
      [] p = "gate_save" -> "gate_dump"
      [] OTHER -> "final_dump"
WriterOf(p) ==
    CASE p \in {"early_save", "early_dump"} -> "early"
      [] p \in {"gate_save", "gate_dump"} -> "gate"
      [] p \in {"final_save", "final_dump"} -> "final"
      [] OTHER -> "handler"

\* open(results_file, 'w') creates or truncates the file in place
OpenedFile(who) == [state |-> "partial", content |-> BlankRecord, by |-> who]
WrittenFile(who, r) == [state |-> "complete", content |-> r, by |-> who]

\* with open(results_file, 'w') as f:  -- an OSError leaves the file alone
OpenResultsFile ==
    /\ pc \in SavePcs
    /\ \E ok \in BOOLEAN :
          IF ok
          THEN /\ file' = OpenedFile(WriterOf(pc))
               /\ opens' = opens + 1
               /\ pc' = DumpOf(pc)
          ELSE /\ pc' = "exc_handler"
               /\ UNCHANGED <<file, opens>>
    /\ UNCHANGED <<results, excWriteFailed, envVars, timeVars, pipeline, ghostVars>>

\* a save after which the function goes on and raises
DumpResultsThenRaise ==
    /\ pc \in DumpPcs
    /\ \E ok \in BOOLEAN :
          IF ok
          THEN file' = WrittenFile(WriterOf(pc), results)
          ELSE UNCHANGED file
    /\ pc' = "exc_handler"
    /\ UNCHANGED <<results, opens, excWriteFailed, envVars, timeVars, pipeline,
                   ghostVars>>

\* json.dump(results, f, default=make_serializable) and the close of f
DumpResults ==
    /\ pc \in DumpPcs
    /\ \E ok \in BOOLEAN :
          IF ok
          THEN /\ file' = WrittenFile(WriterOf(pc), results)
               /\ pc' = "done"
          ELSE /\ pc' = "exc_handler"
               /\ UNCHANGED file
    /\ UNCHANGED <<results, opens, excWriteFailed, envVars, timeVars, pipeline,
                   ghostVars>>

\* except Exception as e: ... open(results_file, 'w')
HandlerOpen ==
    /\ pc = "exc_handler"
    /\ \E ok \in BOOLEAN :
          IF ok
          THEN /\ file' = OpenedFile("handler")
               /\ opens' = opens + 1
               /\ pc' = "exc_dump"
               /\ UNCHANGED excWriteFailed
          ELSE /\ excWriteFailed' = TRUE
               /\ pc' = "done"
               /\ UNCHANGED <<file, opens>>
    /\ UNCHANGED <<results, envVars, timeVars, pipeline, ghostVars>>

\* a handler whose own write is not guarded: its failure leaves the function
HandlerDumpReraises ==
    /\ pc = "exc_dump"
    /\ \E ok \in BOOLEAN :
          IF ok
          THEN /\ file' = WrittenFile("handler", MinimalErrorRecord)
               /\ pc' = "done"
          ELSE /\ pc' = "raised"
               /\ UNCHANGED file
    /\ UNCHANGED <<results, opens, excWriteFailed, envVars, timeVars, pipeline,
                   ghostVars>>

\* json.dump({"job_id", "status": "error", "error": str(e)}, f);
\* except Exception as write_error: logger.critical(...)
HandlerDump ==
    /\ pc = "exc_dump"
    /\ \E ok \in BOOLEAN :
          IF ok
          THEN /\ file' = WrittenFile("handler", MinimalErrorRecord)
               /\ UNCHANGED excWriteFailed
          ELSE /\ excWriteFailed' = TRUE
               /\ UNCHANGED file
    /\ pc' = "done"
    /\ UNCHANGED <<results, opens, envVars, timeVars, pipeline, ghostVars>>

(***************************************************************************)
(* Speaker diarization stage                               app.py 444-483 *)
(***************************************************************************)
\* gates that also stop a transcript of exactly 5 segments or exactly 10 seconds
DiarizationSkipAtThreshold(r) ==
    IF ~HF_ACCESS_TOKEN THEN "err_no_token"
    ELSE IF r.segments.n = 0 THEN "err_no_segments"
    ELSE IF r.segments.maxEnd <= MinDuration \/ r.segments.n <= MinSegments
         THEN "err_too_short"
    ELSE "run"

\* line 445 and line 453: which of the gates stops the diarizer, if any
DiarizationSkip(r) ==
    IF ~HF_ACCESS_TOKEN THEN "err_no_token"
    ELSE IF r.segments.n = 0 THEN "err_no_segments"
    ELSE IF r.segments.maxEnd < MinDuration \/ r.segments.n < MinSegments
         THEN "err_too_short"
    ELSE "run"

DiarizationGate ==
    /\ pc = "diar_gate"
    /\ IF DiarizationSkip(results) # "run"
       THEN /\ results' = [results EXCEPT !.diarization = DiarizationSkip(results)]
            /\ pc' = "topic_enter"
            /\ UNCHANGED <<timeVars, invoked, expiredAt>>
       ELSE /\ \E seconds \in Limits("diarization") : time_limit_enter(seconds)
            /\ invoked' = invoked \cup {"diarizer"}
            /\ expiredAt' = "none"
            /\ pc' = "diar_ctor"
            /\ UNCHANGED results
    /\ UNCHANGED <<ioVars, envVars, pipeline, transcribeRet, diarRet, extRet, absRet,
                   diarExpired, overran>>

\* SpeakerDiarization(use_auth_token=HF_ACCESS_TOKEN): the pipeline is loaded
\* inside try/except, so a failed load only leaves self.pipeline = None
\*                                                       diarization.py 46-84
DiarizerInit ==
    /\ pc = "diar_ctor"
    /\ \E o \in {"ready", "none", "raise"} :
          IF o = "raise"
          THEN /\ results' = OnException("diarization", results)
               /\ pc' = AfterStage("diarization")
               /\ time_limit_finally
               /\ pipeline' = "unset"
          ELSE /\ pipeline' = o
               /\ pc' = "diar_call"
               /\ UNCHANGED <<results, timeVars>>
    /\ overran' = Overrun
    /\ UNCHANGED <<ioVars, envVars, invoked, transcribeRet, diarRet, extRet, absRet,
                   expiredAt, diarExpired>>

\* a recording step that takes a returned list as the new segments
RecordDiarizationFromList(r, ret) ==
    IF ret = "segments"
    THEN [r EXCEPT !.diarization = "diarizer_list",
                   !.segments = [src |-> "diarizer", n |-> 1, maxEnd |-> r.segments.maxEnd]]
    ELSE [r EXCEPT !.diarization = "err_invalid_format"]

\* lines 463-470: a dictionary is stored (and may replace the segments),
\* anything else is recorded as an invalid format
RecordDiarization(r, ret) ==
    CASE ret = "dict_with_segments" ->
            [r EXCEPT !.diarization = "diarizer_dict",
                      !.segments = [src |-> "diarizer", n |-> 1, maxEnd |-> r.segments.maxEnd]]
      [] ret = "dict_without_segments" -> [r EXCEPT !.diarization = "diarizer_dict"]
      [] OTHER -> [r EXCEPT !.diarization = "err_invalid_format"]

\* a diarizer that raises instead of returning the SPEAKER_UNKNOWN list, with
\* nothing in the orchestrator to catch it but the outermost handler
DiarizeRaisesOnSentinel ==
    /\ pc = "diar_call"
    /\ \E ret \in DiarizeReturns :
          /\ (pipeline = "none") => ret = "sentinel"
          /\ diarRet' = ret
          /\ IF ret = "sentinel"
             THEN /\ pc' = "exc_handler"
                  /\ time_limit_finally
                  /\ UNCHANGED results
             ELSE /\ results' = RecordDiarization(results, ret)
                  /\ pc' = "diar_exit"
                  /\ UNCHANGED timeVars
    /\ overran' = Overrun
    /\ UNCHANGED <<ioVars, envVars, pipeline, invoked, transcribeRet, extRet, absRet,
                   expiredAt, diarExpired>>

\* diarizer.diarize(file_path, transcript_data): a list of segments, or the
\* one-segment SPEAKER_UNKNOWN list when the pipeline is missing or anything
\* inside fails                                        diarization.py 145-243
Diarize ==
    /\ pc = "diar_call"
    /\ \E ret \in DiarizeReturns :
          /\ (pipeline = "none") => ret = "sentinel"
          /\ diarRet' = ret
          /\ results' = RecordDiarization(results, ret)
    /\ pc' = "diar_exit"
    /\ overran' = Overrun
    /\ UNCHANGED <<ioVars, envVars, timeVars, pipeline, invoked, transcribeRet,
                   extRet, absRet, expiredAt, diarExpired>>

DiarizationExit ==
    /\ pc = "diar_exit"
    /\ LeaveStage("diarization")
    /\ pipeline' = "unset"
    /\ UNCHANGED <<ioVars, envVars, ghostVars>>

(***************************************************************************)
(* Topic detection stage                                   app.py 485-513 *)
(***************************************************************************)
TopicEnter ==
    /\ pc = "topic_enter"
    /\ IF NoValidTranscript(results.transcript)
       THEN /\ results' = [results EXCEPT !.topics = "empty_list"]
            /\ pc' = "summ_enter"
            /\ UNCHANGED <<timeVars, expiredAt>>
       ELSE /\ \E seconds \in Limits("topics") : time_limit_enter(seconds)
            /\ expiredAt' = "none"
            /\ pc' = "topic_check"
            /\ UNCHANGED results
    /\ UNCHANGED <<ioVars, envVars, pipeline, invoked, transcribeRet, diarRet, extRet,
                   absRet, diarExpired, overran>>

\* a check that also turns away a transcript of exactly 30 words
TooShortAtThreshold(s) == s.words <= MinWords

\* len(results["transcript"].split()) < 30                     app.py 492, 522
TooShort(s) == s.words < MinWords

TopicCheck ==
    /\ pc = "topic_check"
    /\ IF TooShort(results.transcript)
       THEN /\ results' = [results EXCEPT !.topics = "empty_list"]
            /\ pc' = "topic_exit"
            /\ UNCHANGED invoked
       ELSE /\ invoked' = invoked \cup {"topic_detector"}
            /\ pc' = "topic_call"
            /\ UNCHANGED results
    /\ overran' = Overrun
    /\ UNCHANGED <<ioVars, envVars, timeVars, pipeline, transcribeRet, diarRet, extRet,
                   absRet, expiredAt, diarExpired>>

\* TopicDetector().detect_topics(results["transcript"]) and lines 500-510
DetectTopics ==
    /\ pc = "topic_call"
    /\ \E o \in TopicOutcomes :
          CASE o = "list" -> /\ results' = [results EXCEPT !.topics = "detected"]
                             /\ pc' = "topic_exit"
                             /\ UNCHANGED timeVars
            [] o = "malformed" -> /\ results' = [results EXCEPT !.topics = "empty_list"]
                                  /\ pc' = "topic_exit"
                                  /\ UNCHANGED timeVars
            [] OTHER -> /\ results' = OnException("topics", results)
                        /\ pc' = AfterStage("topics")
                        /\ time_limit_finally
    /\ overran' = Overrun
    /\ UNCHANGED <<ioVars, envVars, pipeline, invoked, transcribeRet, diarRet, extRet,
                   absRet, expiredAt, diarExpired>>

TopicExit ==
    /\ pc = "topic_exit"
    /\ LeaveStage("topics")
    /\ UNCHANGED <<ioVars, envVars, pipeline, ghostVars>>

(***************************************************************************)
(* Summarization stage                                     app.py 515-567 *)
(***************************************************************************)
SummarizationEnter ==
    /\ pc = "summ_enter"
    /\ IF NoValidTranscript(results.transcript)
       THEN /\ results' = [results EXCEPT !.abstractive_summary = "skipped",
                                          !.extractive_summary = "skipped"]
            /\ pc' = "final_save"
            /\ UNCHANGED <<timeVars, expiredAt>>
       ELSE /\ \E seconds \in Limits("summarization") : time_limit_enter(seconds)
            /\ expiredAt' = "none"
            /\ pc' = "summ_check"
            /\ UNCHANGED results
    /\ UNCHANGED <<ioVars, envVars, pipeline, invoked, transcribeRet, diarRet, extRet,
                   absRet, diarExpired, overran>>

SummarizationCheck ==
    /\ pc = "summ_check"
    /\ IF TooShort(results.transcript)
       THEN /\ results' = [results EXCEPT !.abstractive_summary = "too_short",
                                          !.extractive_summary = "too_short"]
            /\ pc' = "summ_exit"
            /\ UNCHANGED invoked
       ELSE /\ invoked' = invoked \cup {"extractive"}
            /\ pc' = "ext_call"
            /\ UNCHANGED results
    /\ overran' = Overrun
    /\ UNCHANGED <<ioVars, envVars, timeVars, pipeline, transcribeRet, diarRet, extRet,
                   absRet, expiredAt, diarExpired>>

\* lines 533-540 and 548-555: what the inner try/except stores
SummaryOf(o) ==
    CASE o = "ok" -> "result"
      [] o = "malformed" -> "err_malformed"
      [] OTHER -> "err_exception"

\* ExtractiveSummarizer().summarize(results["transcript"])
ExtractiveSummarize ==
    /\ pc = "ext_call"
    /\ \E o \in SummaryOutcomes :
          /\ extRet' = o
          /\ results' = [results EXCEPT !.extractive_summary = SummaryOf(o)]
    /\ invoked' = invoked \cup {"abstractive"}
    /\ pc' = "abs_call"
    /\ overran' = Overrun
    /\ UNCHANGED <<ioVars, envVars, timeVars, pipeline, transcribeRet, diarRet, absRet,
                   expiredAt, diarExpired>>

\* AbstractiveSummarizer().summarize(results["transcript"])
AbstractiveSummarize ==
    /\ pc = "abs_call"
    /\ \E o \in SummaryOutcomes :
          /\ absRet' = o
          /\ results' = [results EXCEPT !.abstractive_summary = SummaryOf(o)]
    /\ pc' = "summ_exit"
    /\ overran' = Overrun
    /\ UNCHANGED <<ioVars, envVars, timeVars, pipeline, invoked, transcribeRet, diarRet,
                   extRet, expiredAt, diarExpired>>

SummarizationExit ==
    /\ pc = "summ_exit"
    /\ LeaveStage("summarization")
    /\ UNCHANGED <<ioVars, envVars, pipeline, ghostVars>>

(***************************************************************************)
(* Expiry of a deadline                                                    *)
(***************************************************************************)
\* Where a TimeoutError raised by signal_handler can land.  TimeoutError is a
\* subclass of Exception, so every `except Exception` between the interrupted
\* instruction and the stage's `except TimeoutError` catches it first:
\*   "collaborator"  a try/except Exception inside the collaborator
\*                   (diarization.py 75-80, 178-243; summarization.py 98-134,
\*                   250-309), which then returns its fallback;
\*   "inner"         the per-summarizer try/except of app.py 528-555;
\*   "stage"         the stage's own `except TimeoutError`.
Landings(p) ==
    CASE p \in {"diar_ctor", "diar_call", "topic_call"} -> {"collaborator", "stage"}
      [] p \in {"ext_call", "abs_call"} -> {"collaborator", "inner"}
      [] OTHER -> {"stage"}

\* signal_handler(signum, frame): raise TimeoutError(...)       app.py 139-140
signal_handler ==
    /\ alarm = "armed"
    /\ InStage
    /\ expiredAt' = pc
    /\ diarExpired' = (diarExpired \/ StageOf(pc) = "diarization")
    /\ \E land \in Landings(pc) :
          CASE land = "stage" ->
                 /\ results' = OnTimeoutError(StageOf(pc), results)
                 /\ pc' = AfterStage(StageOf(pc))
                 /\ time_limit_finally
                 /\ pipeline' = "unset"
                 /\ UNCHANGED <<invoked, diarRet, extRet, absRet, overran>>
            [] land = "inner" ->
                 /\ results' = IF pc = "ext_call"
                               THEN [results EXCEPT !.extractive_summary = "err_exception"]
                               ELSE [results EXCEPT !.abstractive_summary = "err_exception"]
                 /\ pc' = IF pc = "ext_call" THEN "abs_call" ELSE "summ_exit"
                 /\ invoked' = IF pc = "ext_call" THEN invoked \cup {"abstractive"}
                               ELSE invoked
                 /\ extRet' = IF pc = "ext_call" THEN "interrupted" ELSE extRet
                 /\ absRet' = IF pc = "abs_call" THEN "interrupted" ELSE absRet
                 /\ alarm' = "off"
                 /\ UNCHANGED <<timer, timeout_occurred, pipeline, diarRet, overran>>
            [] OTHER ->
                 /\ alarm' = "off"
                 /\ overran' = TRUE
                 /\ UNCHANGED <<timer, timeout_occurred>>
                 /\ CASE pc = "diar_ctor" ->
                           /\ pipeline' = "none"
                           /\ pc' = "diar_call"
                           /\ UNCHANGED <<results, invoked, diarRet, extRet, absRet>>
                      [] pc = "diar_call" ->
                           /\ diarRet' = "sentinel"
                           /\ results' = RecordDiarization(results, "sentinel")
                           /\ pc' = "diar_exit"
                           /\ UNCHANGED <<pipeline, invoked, extRet, absRet>>
                      [] pc = "ext_call" ->
                           /\ extRet' = "ok"
                           /\ results' = [results EXCEPT !.extractive_summary = "result"]
                           /\ invoked' = invoked \cup {"abstractive"}
                           /\ pc' = "abs_call"
                           /\ UNCHANGED <<pipeline, diarRet, absRet>>
                      [] pc = "abs_call" ->
                           /\ absRet' = "ok"
                           /\ results' = [results EXCEPT !.abstractive_summary = "result"]
                           /\ pc' = "summ_exit"
                           /\ UNCHANGED <<pipeline, invoked, diarRet, extRet>>
                      [] OTHER ->
                           UNCHANGED <<pc, results, pipeline, invoked, diarRet, extRet,
                                       absRet>>
    /\ UNCHANGED <<ioVars, envVars, transcribeRet>>

\* timeout_handler(): timeout_occurred = True; logging.error(...)  app.py 154-158
\* It runs on the timer thread and raises nothing in the job's thread.
timeout_handler ==
    /\ timer = "running"
    /\ InStage
    /\ timeout_occurred' = TRUE
    /\ timer' = "fired"
    /\ expiredAt' = pc
    /\ diarExpired' = (diarExpired \/ StageOf(pc) = "diarization")
    /\ UNCHANGED <<pc, results, ioVars, envVars, alarm, pipeline, invoked,
                   transcribeRet, diarRet, extRet, absRet, overran>>

(***************************************************************************)
(* get_results(job_id)                                     app.py 308-334 *)
(***************************************************************************)
\* 202 "processing" when the file does not exist, the parsed record when
\* json.load succeeds, HTTP 500 when json.load raises on incomplete content
Answer(f) ==
    CASE f.state = "absent" -> "processing"
      [] f.state = "complete" -> "record"
      [] OTHER -> "error_500"

get_results ==
    /\ lastPoll' = Answer(file)
    /\ UNCHANGED <<jobVars, mergeVars, sideVars>>

(***************************************************************************)
(* The job and its reader                                                  *)
(***************************************************************************)
JobStep ==
    \/ ExtractMetadata
    \/ CreateTranscriber
    \/ Transcribe
    \/ TranscriptGate
    \/ OpenResultsFile
    \/ DumpResults
    \/ HandlerOpen
    \/ HandlerDump
    \/ DiarizationGate
    \/ DiarizerInit
    \/ Diarize
    \/ DiarizationExit
    \/ TopicEnter
    \/ TopicCheck
    \/ DetectTopics
    \/ TopicExit
    \/ SummarizationEnter
    \/ SummarizationCheck
    \/ ExtractiveSummarize
    \/ AbstractiveSummarize
    \/ SummarizationExit

process_audio_file == JobStep

Next ==
    \/ ExtractMetadata
    \/ CreateTranscriber
    \/ Transcribe
    \/ TranscriptGate
    \/ OpenResultsFile
    \/ DumpResults
    \/ HandlerOpen
    \/ HandlerDump
    \/ DiarizationGate
    \/ DiarizerInit
    \/ Diarize
    \/ DiarizationExit
    \/ TopicEnter
    \/ TopicCheck
    \/ DetectTopics
    \/ TopicExit
    \/ SummarizationEnter
    \/ SummarizationCheck
    \/ ExtractiveSummarize
    \/ AbstractiveSummarize
    \/ SummarizationExit
    \/ signal_handler
    \/ timeout_handler
    \/ get_results

Spec == Init /\ [][Next]_vars

(***************************************************************************)
(* The same-speaker merge pass                     diarization.py 268-291, *)
(*                                                 474-497                 *)
(* A segment is [start, end, speaker, duration], times in hundredths of a  *)
(* second.  The confidence added afterwards (lines 293-298) is random and  *)
(* is left out.                                                            *)
(***************************************************************************)
TimePoints == {0, 15, 16, 40}
Speakers == {"Speaker 1", "Speaker 2"}

\* the segment built for one pyannote turn, lines 260-265
RawSegment(start, end, speaker) ==
    [start |-> start, end |-> end, speaker |-> speaker, duration |-> end - start]

RawSegments ==
    {RawSegment(a, b, sp) : <<a, b, sp>> \in
        {t \in TimePoints \X TimePoints \X Speakers : t[1] <= t[2]}}

RECURSIVE SeqsUpTo(_, _)
SeqsUpTo(S, n) ==
    IF n = 0 THEN {<<>>}
    ELSE LET shorter == SeqsUpTo(S, n - 1)
         IN  shorter \cup {Append(q, x) : <<q, x>> \in
                              {qx \in shorter \X S : Len(qx[1]) = n - 1}}

\* sorted(raw_segments, key=lambda s: s["start"]): a stable sort
RECURSIVE InsertByStart(_, _)
InsertByStart(sorted, seg) ==
    IF sorted = <<>> THEN <<seg>>
    ELSE IF sorted[Len(sorted)].start <= seg.start THEN Append(sorted, seg)
    ELSE Append(InsertByStart(SubSeq(sorted, 1, Len(sorted) - 1), seg),
                sorted[Len(sorted)])

RECURSIVE SortByStart(_)
SortByStart(segs) ==
    IF segs = <<>> THEN <<>>
    ELSE InsertByStart(SortByStart(SubSeq(segs, 1, Len(segs) - 1)), segs[Len(segs)])

\* a test that leaves apart two turns whose gap is exactly the collar
MergeableBelowCollar(current, next_segment) ==
    /\ next_segment.speaker = current.speaker
    /\ next_segment.start - current.end < collar

\* next_segment["speaker"] == current["speaker"] and
\* next_segment["start"] - current["end"] <= self.collar
Mergeable(current, next_segment) ==
    /\ next_segment.speaker = current.speaker
    /\ next_segment.start - current.end <= collar

\* current["end"] = next_segment["end"]; current["duration"] = round(end - start, 2)
Extend(current, next_segment) ==
    [current EXCEPT !.end = next_segment.end,
                    !.duration = next_segment.end - current.start]

\* the loop of lines 278-288 from position i on, then line 291
RECURSIVE Sweep(_, _, _, _)
Sweep(sorted_segments, i, current, merged) ==
    IF i > Len(sorted_segments) THEN Append(merged, current)
    ELSE IF Mergeable(current, sorted_segments[i])
         THEN Sweep(sorted_segments, i + 1, Extend(current, sorted_segments[i]), merged)
         ELSE Sweep(sorted_segments, i + 1, sorted_segments[i], Append(merged, current))

\* a pass that leaves the turns in the order the pipeline yielded them
MergePassUnsorted(segs) ==
    IF segs = <<>> THEN <<>> ELSE Sweep(segs, 2, segs[1], <<>>)

\* a pass that forgets line 291, the append of the last open segment
MergePassDropLast(segs) ==
    IF segs = <<>> THEN <<>>
    ELSE LET all == Sweep(SortByStart(segs), 2, SortByStart(segs)[1], <<>>)
         IN  SubSeq(all, 1, Len(all) - 1)

MergePass(segs) ==
    IF segs = <<>> THEN <<>>
    ELSE Sweep(SortByStart(segs), 2, SortByStart(segs)[1], <<>>)

InitMerge ==
    /\ JobScheduled
    /\ platform = "unix"
    /\ HF_ACCESS_TOKEN = FALSE
    /\ EnforceIdle
    /\ ChunksIdle
    /\ JobsIdle
    /\ LongIdle
    /\ LazyIdle
    /\ TrimIdle
    /\ raw_segments \in SeqsUpTo(RawSegments, MaxTurns)
    /\ merged_segments = <<>>
    /\ remerged = <<>>
    /\ mpc = "turns"

\* _process_diarization_results on the turns the pipeline yielded
process_diarization_results ==
    /\ mpc = "turns"
    /\ merged_segments' = MergePass(raw_segments)
    /\ mpc' = "merged"
    /\ UNCHANGED <<jobVars, lastPoll, raw_segments, remerged, sideVars>>

\* the pass run once more, on its own output
merge_again ==
    /\ mpc = "merged"
    /\ remerged' = MergePass(merged_segments)
    /\ mpc' = "remerged"
    /\ UNCHANGED <<jobVars, lastPoll, raw_segments, merged_segments, sideVars>>

NextMerge ==
    \/ process_diarization_results
    \/ merge_again

SpecMerge == InitMerge /\ [][NextMerge]_vars

(***************************************************************************)
(* Properties                                                              *)
(***************************************************************************)
Done == pc = "done"
Persisted == file.state = "complete"
Downstream == {"diarizer", "topic_detector", "extractive", "abstractive"}
Present(v) == v # "ABSENT"

\* C1 as stated: whatever the collaborators and the file write do, the job
\* returns with a result file persisted.
C1_AlwaysPersisted == Done => Persisted

\* C1 amended: the job never stops before it returns, and when it has returned
\* the result file holds a complete record -- the results dictionary written by
\* one of the three saves, or the minimal error record written by the outermost
\* handler -- unless the handler's own write raised, which is only logged.
C1_PersistedUnlessHandlerWriteFails ==
    /\ ~Done => ENABLED process_audio_file
    /\ Done =>
         \/ /\ Persisted
            /\ file.by \in {"early", "gate", "final"}
            /\ file.content = results
         \/ /\ Persisted
            /\ file.by = "handler"
            /\ file.content = MinimalErrorRecord
         \/ excWriteFailed

\* C1 witness: a save raised and the handler persisted the minimal record.
C1_Witness ==
    /\ Done
    /\ Persisted
    /\ file.by = "handler"
    /\ file.content = MinimalErrorRecord
    /\ opens = 2

\* C2 as stated: when transcription raises or returns an empty text, no later
\* collaborator is invoked and the transcript of the record saved at the gate
\* begins with "Error:".
C2_ErrorMarkerPersisted ==
    (Done /\ transcribeRet \in {"raise", "dict_empty_text"}) =>
        /\ invoked \cap Downstream = {}
        /\ (Persisted /\ file.by = "gate") => StartsWithError(file.content.transcript)

\* C2 amended: when transcription raises or returns an empty text, no later
\* collaborator is invoked, the job never reaches the final save, and the record
\* saved at the gate has as transcript an error marker when transcription raised
\* and the empty string when it returned an empty text.
C2_GateRecord ==
    (transcribeRet \in {"raise", "dict_empty_text"}) =>
        /\ invoked \cap Downstream = {}
        /\ file.by \in {"nobody", "gate", "handler"}
        /\ (Persisted /\ file.by = "gate") =>
              file.content.transcript =
                  IF transcribeRet = "raise" THEN ErrorMarker("str(e)") ELSE EmptyStr

\* C2 witness: an empty text was returned and the gate's record is persisted.
C2_Witness ==
    /\ Done
    /\ transcribeRet = "dict_empty_text"
    /\ Persisted
    /\ file.by = "gate"
    /\ file.content.segments.n = MinSegments

C4_NeverPastDeadline == ~overran

\* C5 as stated: when the diarization deadline expires, the saved record has
\* diarization = {error: "Speaker diarization timed out"}, the transcription's
\* segments, and topics and both summaries populated.
C5_DiarizationTimedOut ==
    (Done /\ diarExpired /\ Persisted /\ file.by = "final") =>
        /\ file.content.diarization = "err_timed_out"
        /\ file.content.segments.src = "transcriber"
        /\ Present(file.content.topics)
        /\ Present(file.content.abstractive_summary)
        /\ Present(file.content.extractive_summary)

\* C6 as stated: a summarizer that returned a well-formed result before the
\* shared deadline keeps it in the saved record, however the other one fails
\* (raises, returns a malformed result, runs past the deadline).
C6_SummariesIsolated ==
    (Done /\ Persisted /\ file.by = "final") =>
        /\ (extRet = "ok" /\ expiredAt \in {"none", "abs_call"}) =>
              file.content.extractive_summary = "result"
        /\ (absRet = "ok" /\ expiredAt \in {"none", "ext_call"}) =>
              file.content.abstractive_summary = "result"

\* C7 as stated: a poll of get_results sees the file absent or the complete
\* record, never a partially written file.
C7_NoPartialRead == lastPoll # "error_500"

\* C8 as stated: the result file is opened for writing at most once in a run.
C8_WrittenOnce == opens <= 1

\* C8 amended: once a write of the result file has completed, no later step of
\* the run opens or writes it again, so a complete record never changes; the
\* file is opened a second time only by the outermost handler, after the first
\* write raised, and never a third time.
C8_CompleteRecordImmutable ==
    [][/\ Persisted => file' = file
       /\ opens' <= 2
       /\ opens' = 2 => file'.by = "handler"]_vars

\* C8 witness: the first write raised after opening the file and the handler
\* wrote the file again.
C8_Witness ==
    /\ Done
    /\ opens = 2
    /\ Persisted

NonOverlapping(segs) ==
    \A i \in 1 .. Len(segs) - 1 : segs[i].end <= segs[i + 1].start
SortedByStart(segs) ==
    \A i \in 1 .. Len(segs) - 1 : segs[i].start <= segs[i + 1].start

Core(segs) ==
    [i \in 1 .. Len(segs) |->
        <<segs[i].start, segs[i].end, segs[i].speaker>>]

\* C10: the merge pass applied to its own output returns the same list of
\* (start, end, speaker) segments in the same order.
C10_Idempotent == (mpc = "remerged") => Core(remerged) = Core(merged_segments)

\* C10 witness: a pass that merged some turns and kept several segments has been
\* run again on its output.
C10_Witness ==
    /\ mpc = "remerged"
    /\ Len(merged_segments) < Len(raw_segments)
    /\ Len(merged_segments) >= 2

\* C13: after a failed construction of the transcriber no collaborator is
\* invoked, the job goes straight to the early save and returns, and the record
\* that save persists has an error-marker transcript and an empty segments list.
C13_ConstructionFailure ==
    (results.warning = "transcriber_init") =>
        /\ invoked = {}
        /\ pc \in {"early_save", "early_dump", "exc_handler", "exc_dump", "done"}
        /\ file.by \in {"nobody", "early", "handler"}
        /\ (Persisted /\ file.by = "early") =>
              /\ StartsWithError(file.content.transcript)
              /\ file.content.segments = EmptySegments

\* C13 witness: the early record of a failed construction is persisted.
C13_Witness ==
    /\ Done
    /\ Persisted
    /\ file.by = "early"
    /\ file.content.warning = "transcriber_init"
    /\ file.content.transcript = ErrorMarker("init_error")

\* C14 as stated: every record persisted after a transcriber-construction
\* failure, after a failed or empty transcription, or by the outermost handler
\* has status "error"; status "completed" appears only with a valid transcript.
C14_StatusCorrected ==
    Persisted =>
        /\ (file.by \in {"early", "gate", "handler"}) => file.content.status = "error"
        /\ (file.content.status = "completed") =>
              ~NoValidTranscript(file.content.transcript)

GatesHold(r) ==
    /\ HF_ACCESS_TOKEN
    /\ r.segments.n >= MinSegments
    /\ r.segments.maxEnd >= MinDuration
PastDiarizationGate == Present(results.diarization) \/ "diarizer" \in invoked
SkipReasons == {"err_no_token", "err_no_segments", "err_too_short"}

\* C15: the diarizer is invoked only when a credential is configured, there are
\* at least 5 segments and the largest segment end is at least 10 seconds; when
\* a gate fails the diarizer is not invoked and diarization is {error: reason};
\* at exactly 5 segments and exactly 10 seconds it is invoked.
C15_DiarizationGates ==
    /\ ("diarizer" \in invoked) => GatesHold(results)
    /\ (PastDiarizationGate /\ ~GatesHold(results)) =>
          /\ "diarizer" \notin invoked
          /\ results.diarization \in SkipReasons
    /\ (PastDiarizationGate /\ HF_ACCESS_TOKEN
          /\ results.segments.n = MinSegments
          /\ results.segments.maxEnd = MinDuration) => "diarizer" \in invoked

\* C15 witness: the diarizer has been called on exactly 5 segments ending at
\* exactly 10 seconds.
C15_Witness ==
    /\ diarRet = "segments"
    /\ "diarizer" \in invoked
    /\ results.segments.n = MinSegments
    /\ results.segments.maxEnd = MinDuration

DiarizationPcs == {"diar_gate", "diar_ctor", "diar_call", "diar_exit"}

\* C16: no step of the diarization stage (gate, constructor, call, timeout,
\* exception, exit) changes the segments list unless the diarizer returned a
\* dictionary carrying a non-empty segments list.
C16_SegmentsFrame ==
    [][(pc \in DiarizationPcs /\ diarRet' # "dict_with_segments") =>
          results'.segments = results.segments]_vars

\* C16 witness: the diarizer returned its segments and the stage has ended with
\* the transcription's segments still in the record.
C16_Witness ==
    /\ pc = "topic_enter"
    /\ diarRet = "segments"
    /\ results.diarization = "err_invalid_format"
    /\ results.segments.src = "transcriber"
    /\ results.segments.n = MinSegments

Rank(c) ==
    CASE c = "transcriber" -> 1
      [] c = "diarizer" -> 2
      [] c = "topic_detector" -> 3
      [] c = "extractive" -> 4
      [] OTHER -> 5

\* C17: collaborators are invoked in the order transcriber, diarizer, topic
\* detector, summarizers; a stage is entered only from outside every stage,
\* after the previous stage has left its outcome in the record, and no deadline
\* of a stage is pending once the stage has been left.
C17_StagesInOrder ==
    [][/\ \A c \in invoked' \ invoked : \A d \in invoked : Rank(d) < Rank(c)
       /\ (StageOf(pc') # "none" /\ StageOf(pc') # StageOf(pc)) =>
             /\ StageOf(pc) = "none"
             /\ transcribeRet # "none"
             /\ (StageOf(pc') = "topics") => Present(results.diarization)
             /\ (StageOf(pc') = "summarization") => Present(results.topics)
       /\ (StageOf(pc') = "none") => (alarm' = "off" /\ timer' = "none")]_vars

\* C17 witness: all five collaborators have been invoked and the last one is
\* running.
C17_Witness ==
    /\ pc = "abs_call"
    /\ invoked = {"transcriber", "diarizer", "topic_detector", "extractive",
                  "abstractive"}

\* C18: process_audio_file is never left by an exception: a raise of the
\* transcriber or of a summarizer ends as data in the record, a failed write ends
\* in the outermost handler, and a failure of the handler's own write is followed
\* by the normal return.
C18_NothingPropagates ==
    /\ pc # "raised"
    /\ (transcribeRet = "raise") => results.transcript = ErrorMarker("str(e)")
    /\ (extRet = "raise") =>
          results.extractive_summary \in {"err_exception", "timed_out"}
    /\ (absRet = "raise") =>
          results.abstractive_summary \in {"err_exception", "timed_out"}
    /\ excWriteFailed => Done

\* C18 witness: the gate raised on a transcript that is no string, the handler's
\* write failed as well, and the function has returned.
C18_Witness ==
    /\ Done
    /\ excWriteFailed
    /\ transcribeRet = "dict_text_not_str"

(***************************************************************************)
(* _enforce_two_speakers(segments)                  diarization.py 302-365 *)
(***************************************************************************)
PauseGap == 50
MaxSegments == 4

EnforceSpans == {<<0, 10>>, <<60, 70>>, <<61, 70>>}
EnforceSpeakers == {"Speaker 1", "Speaker 2", "Speaker 3"}
EnforceSegments ==
    {RawSegment(t[1][1], t[1][2], t[2]) : t \in EnforceSpans \X EnforceSpeakers}

\* set(s["speaker"] for s in segments)
SpeakersOf(segs) == {segs[i].speaker : i \in DOMAIN segs}

\* speaker_counts[speaker]; the dictionary keeps the order of first appearance
SpeakerCount(segs, sp) == Cardinality({i \in DOMAIN segs : segs[i].speaker = sp})
FirstIndex(segs, sp) ==
    CHOOSE i \in DOMAIN segs :
        /\ segs[i].speaker = sp
        /\ \A j \in 1 .. i - 1 : segs[j].speaker # sp

\* sorted(speaker_counts.items(), key=lambda x: x[1], reverse=True): stable, so
\* equal counts stay in order of first appearance
RanksBefore(segs, a, b) ==
    \/ SpeakerCount(segs, a) > SpeakerCount(segs, b)
    \/ /\ SpeakerCount(segs, a) = SpeakerCount(segs, b)
       /\ FirstIndex(segs, a) < FirstIndex(segs, b)

TopSpeaker(segs, among) ==
    CHOOSE a \in among : \A b \in among \ {a} : RanksBefore(segs, a, b)

\* lines 323-337: every speaker outside the two most frequent becomes the most
\* frequent one
KeepTopTwo(segs) ==
    LET first == TopSpeaker(segs, SpeakersOf(segs))
        second == TopSpeaker(segs, SpeakersOf(segs) \ {first})
    IN  [i \in DOMAIN segs |->
            IF segs[i].speaker \in {first, second} THEN segs[i]
            ELSE [segs[i] EXCEPT !.speaker = first]]

\* lines 349-361: the label switches after every gap longer than 0.5 s
RECURSIVE SplitOnPauses(_, _, _, _, _)
SplitOnPauses(sorted_segments, i, current_speaker, speaker1, speaker2) ==
    IF i > Len(sorted_segments) THEN sorted_segments
    ELSE LET labelled == [sorted_segments EXCEPT ![i].speaker = current_speaker]
             switch == /\ i < Len(sorted_segments)
                       /\ sorted_segments[i + 1].start - sorted_segments[i].end > PauseGap
             next_speaker == IF switch
                             THEN (IF current_speaker = speaker1 THEN speaker2 ELSE speaker1)
                             ELSE current_speaker
         IN  SplitOnPauses(labelled, i + 1, next_speaker, speaker1, speaker2)

\* a function that returns the segments as they came
EnforceTwoSpeakersUnchanged(segs) == segs

EnforceTwoSpeakers(segs) ==
    IF segs = <<>> THEN segs
    ELSE IF Cardinality(SpeakersOf(segs)) = 2 THEN segs
    ELSE IF Cardinality(SpeakersOf(segs)) > 2 THEN KeepTopTwo(segs)
    ELSE LET speaker1 == segs[1].speaker
             speaker2 == IF speaker1 # "Speaker 2" THEN "Speaker 2" ELSE "Speaker 1"
         IN  SplitOnPauses(SortByStart(segs), 1, speaker1, speaker1, speaker2)

InitEnforce ==
    /\ JobScheduled
    /\ platform = "unix"
    /\ HF_ACCESS_TOKEN = FALSE
    /\ MergeIdle
    /\ ChunksIdle
    /\ JobsIdle
    /\ LongIdle
    /\ LazyIdle
    /\ TrimIdle
    /\ segments \in SeqsUpTo(EnforceSegments, MaxSegments)
    /\ enforced = <<>>
    /\ epc = "segments"

enforce_two_speakers ==
    /\ epc = "segments"
    /\ enforced' = EnforceTwoSpeakers(segments)
    /\ epc' = "enforced"
    /\ UNCHANGED <<jobVars, lastPoll, mergeVars, segments, chunkVars, jobsVars, longVars,
                   lazyVars, trimVars>>

NextEnforce == enforce_two_speakers

SpecEnforce == InitEnforce /\ [][NextEnforce]_vars

\* C11 as stated: for every non-empty segment list _enforce_two_speakers returns
\* a list in which exactly 2 distinct speakers occur.
C11_ExactlyTwoSpeakers ==
    (epc = "enforced" /\ segments # <<>>) => Cardinality(SpeakersOf(enforced)) = 2

(***************************************************************************)
(* _process_in_chunks(audio, chunk_duration, ...)   diarization.py 394-497 *)
(* A recording of two chunks.  `turns` says who really speaks when; every  *)
(* run of the pipeline (on the whole file, on each chunk file) names the   *)
(* speakers it hears speaker_0, speaker_1, ... on its own.                 *)
(***************************************************************************)
MaxTrueTurns == 2

\* start_ms / end_ms of the chunks: chunk k spans ChunkEdges[k] .. ChunkEdges[k + 1]
ChunkEdges == <<0, 100, 200>>
ChunkCount == Len(ChunkEdges) - 1
ChunkTimePoints == {0, 40, 100, 110, 200}
TrueSpeakers == {"A", "B"}
SpeakerNames == <<"Speaker 1", "Speaker 2">>
TrueTurns ==
    {[start |-> t[1], end |-> t[2], speaker |-> t[3]] :
        t \in {u \in ChunkTimePoints \X ChunkTimePoints \X TrueSpeakers : u[1] < u[2]}}

\* turns in order of start; a speaker's own turns do not overlap
Chronological(ts) ==
    \A i, j \in DOMAIN ts :
        i < j => /\ ts[i].start <= ts[j].start
                 /\ ts[i].speaker = ts[j].speaker => ts[i].end <= ts[j].start

\* the orders in which one run of the pipeline can number the speakers
Labellings ==
    {l \in [TrueSpeakers -> {SpeakerNames[k] : k \in DOMAIN SpeakerNames}] :
        \A a, b \in TrueSpeakers : a # b => l[a] # l[b]}

NameIndex(name) == CHOOSE k \in DOMAIN SpeakerNames : SpeakerNames[k] = name

\* the speakers with a turn inside the span lo .. hi
Heard(ts, lo, hi) ==
    {ts[i].speaker : i \in {j \in DOMAIN ts : ts[j].start < hi /\ ts[j].end > lo}}

\* f"Speaker {int(speaker.split('_')[1]) + 1}": the run numbers the speakers it
\* hears from 0, in its own order
RunLabel(heard, labelling, sp) ==
    SpeakerNames[Cardinality({q \in heard :
                     NameIndex(labelling[q]) <= NameIndex(labelling[sp])})]

\* the turns of ts clipped to lo .. hi, times relative to lo, as the segments of
\* lines 259-266
RECURSIVE Clip(_, _, _, _, _)
Clip(ts, lo, hi, heard, labelling) ==
    IF ts = <<>> THEN <<>>
    ELSE LET t == ts[1]
             rest == Clip(Tail(ts), lo, hi, heard, labelling)
             from == IF t.start > lo THEN t.start ELSE lo
             to == IF t.end < hi THEN t.end ELSE hi
         IN  IF from < to
             THEN <<RawSegment(from - lo, to - lo, RunLabel(heard, labelling, t.speaker))>>
                  \o rest
             ELSE rest

\* diarization.itertracks() of a run of the pipeline on the span lo .. hi
Annotation(ts, lo, hi, labelling) == Clip(ts, lo, hi, Heard(ts, lo, hi), labelling)

\* segment["start"] += start_ms / 1000; segment["end"] += start_ms / 1000
Shifted(segs, offset) ==
    [i \in DOMAIN segs |->
        [segs[i] EXCEPT !.start = segs[i].start + offset, !.end = segs[i].end + offset]]

\* lines 440-453 for chunk k: the pipeline run on the chunk file, the merge
\* pass, the offset
ChunkResult(ts, labellings, k) ==
    Shifted(MergePass(Annotation(ts, ChunkEdges[k], ChunkEdges[k + 1],
                                 labellings[k + 1])),
            ChunkEdges[k])

\* lines 438-462 for those of the chunks k .. ChunkCount that are in `taken`,
\* before the speaker mapping
RECURSIVE ChunkSegments(_, _, _, _)
ChunkSegments(ts, labellings, k, taken) ==
    IF k > ChunkCount THEN <<>>
    ELSE (IF k \in taken THEN ChunkResult(ts, labellings, k) ELSE <<>>)
         \o ChunkSegments(ts, labellings, k + 1, taken)

\* speaker_mapping[original_speaker] = f"Speaker {len(speaker_mapping) + 1}":
\* keyed by the chunk's own label, numbered in order of first appearance
MappedSpeaker(segs, label) ==
    SpeakerNames[Cardinality(SpeakersOf(SubSeq(segs, 1, FirstIndex(segs, label))))]

MapSpeakers(segs) ==
    [i \in DOMAIN segs |->
        [segs[i] EXCEPT !.speaker = MappedSpeaker(segs, segs[i].speaker)]]

\* the whole function when the pipeline succeeds on the chunks in `taken` only
ProcessChunks(ts, labellings, taken) ==
    MergePass(MapSpeakers(ChunkSegments(ts, labellings, 1, taken)))

ProcessInChunks(ts, labellings) == ProcessChunks(ts, labellings, 1 .. ChunkCount)

\* a mapping that keeps every chunk-local label as the global name
MapChunkKeepLabels(chunk_segments, i, mapping) ==
    [chunk_segments |-> chunk_segments,
     speaker_mapping |-> [l \in DOMAIN mapping \cup SpeakersOf(chunk_segments) |-> l]]

\* lines 450-460 for the segments of one chunk, from position i on:
\* speaker_mapping gets an entry the first time a label is seen
RECURSIVE MapChunk(_, _, _)
MapChunk(chunk_segments, i, mapping) ==
    IF i > Len(chunk_segments)
    THEN [chunk_segments |-> chunk_segments, speaker_mapping |-> mapping]
    ELSE LET original_speaker == chunk_segments[i].speaker
             updated ==
                 IF original_speaker \in DOMAIN mapping THEN mapping
                 ELSE (original_speaker :> SpeakerNames[Cardinality(DOMAIN mapping) + 1])
                      @@ mapping
         IN  MapChunk([chunk_segments EXCEPT ![i].speaker = updated[original_speaker]],
                      i + 1, updated)

\* lines 211-218 on the whole file
DiarizeWhole(ts, labellings) ==
    MergePass(Annotation(ts, ChunkEdges[1], ChunkEdges[ChunkCount + 1], labellings[1]))

InitChunks ==
    /\ JobScheduled
    /\ platform = "unix"
    /\ HF_ACCESS_TOKEN = FALSE
    /\ MergeIdle
    /\ EnforceIdle
    /\ JobsIdle
    /\ LongIdle
    /\ LazyIdle
    /\ TrimIdle
    /\ turns \in {ts \in SeqsUpTo(TrueTurns, MaxTrueTurns) : Chronological(ts)}
    /\ relabel \in [1 .. ChunkCount + 1 -> Labellings]
    /\ whole_segments = <<>>
    /\ all_segments = <<>>
    /\ cpc = "recording"
    /\ chunk_i = 1
    /\ speaker_mapping = <<>>
    /\ chunk_failed = {}

diarize_whole ==
    /\ cpc = "recording"
    /\ whole_segments' = DiarizeWhole(turns, relabel)
    /\ cpc' = "whole"
    /\ UNCHANGED <<jobVars, lastPoll, mergeVars, enforceVars, jobsVars, longVars,
                   lazyVars, trimVars,
                   turns, relabel, all_segments, chunk_i, speaker_mapping, chunk_failed>>

\* a loop that gives up at the first chunk on which the pipeline raises
process_chunk_or_abort ==
    /\ cpc = "whole"
    /\ chunk_i <= ChunkCount
    /\ \E ok \in BOOLEAN :
          IF ok
          THEN LET mapped == MapChunk(ChunkResult(turns, relabel, chunk_i), 1,
                                      speaker_mapping)
               IN  /\ all_segments' = all_segments \o mapped.chunk_segments
                   /\ speaker_mapping' = mapped.speaker_mapping
                   /\ chunk_i' = chunk_i + 1
                   /\ UNCHANGED chunk_failed
          ELSE /\ chunk_failed' = chunk_failed \cup {chunk_i}
               /\ all_segments' = <<>>
               /\ chunk_i' = ChunkCount + 1
               /\ UNCHANGED speaker_mapping
    /\ UNCHANGED <<jobVars, lastPoll, mergeVars, enforceVars, jobsVars, longVars,
                   lazyVars, trimVars,
                   turns, relabel, whole_segments, cpc>>

\* one iteration of the loop of lines 421-472: the pipeline on chunk i, the
\* merge pass, the offset and the speaker mapping; or the except clause of
\* line 464, which only logs
process_chunk ==
    /\ cpc = "whole"
    /\ chunk_i <= ChunkCount
    /\ \E ok \in BOOLEAN :
          IF ok
          THEN LET mapped == MapChunk(ChunkResult(turns, relabel, chunk_i), 1,
                                      speaker_mapping)
               IN  /\ all_segments' = all_segments \o mapped.chunk_segments
                   /\ speaker_mapping' = mapped.speaker_mapping
                   /\ UNCHANGED chunk_failed
          ELSE /\ chunk_failed' = chunk_failed \cup {chunk_i}
               /\ UNCHANGED <<all_segments, speaker_mapping>>
    /\ chunk_i' = chunk_i + 1
    /\ UNCHANGED <<jobVars, lastPoll, mergeVars, enforceVars, jobsVars, longVars,
                   lazyVars, trimVars,
                   turns, relabel, whole_segments, cpc>>

\* lines 474-497: the sort and the final sweep, or the empty list as it is
merge_chunks ==
    /\ cpc = "whole"
    /\ chunk_i > ChunkCount
    /\ all_segments' = IF all_segments # <<>> THEN MergePass(all_segments)
                       ELSE all_segments
    /\ cpc' = "chunked"
    /\ UNCHANGED <<jobVars, lastPoll, mergeVars, enforceVars, jobsVars, longVars,
                   lazyVars, trimVars,
                   turns, relabel, whole_segments, chunk_i, speaker_mapping,
                   chunk_failed>>

process_in_chunks == process_chunk \/ merge_chunks

NextChunks ==
    \/ diarize_whole
    \/ process_chunk
    \/ merge_chunks

SpecChunks == InitChunks /\ [][NextChunks]_vars

RECURSIVE SpeakingTime(_, _)
SpeakingTime(segs, sp) ==
    IF segs = <<>> THEN 0
    ELSE (IF segs[1].speaker = sp THEN segs[1].end - segs[1].start ELSE 0)
         + SpeakingTime(Tail(segs), sp)

Within(a, b, tolerance) == a - b <= tolerance /\ b - a <= tolerance

\* the two results give every speaker the same time, whatever names they use
SameSpeakingTimes(a, b) ==
    \E l \in Labellings :
        \A sp \in TrueSpeakers :
            Within(SpeakingTime(a, SpeakerNames[IF sp = "A" THEN 1 ELSE 2]),
                   SpeakingTime(b, l[sp]), collar)

\* C12 as stated: chunked processing gives every speaker the same total
\* speaking time as processing the recording in one piece, up to the collar
\* (the pipeline having succeeded on every chunk).
C12_SameSpeakingTime ==
    (cpc = "chunked" /\ chunk_failed = {}) =>
        SameSpeakingTimes(whole_segments, all_segments)

(***************************************************************************)
(* _summarize_long_text: fan-out / fan-in          summarization.py 388-414 *)
(* futures[i] is the call submitted for chunk i: its state, and the place  *)
(* it took in the as_completed loop (0 while it has not been taken).       *)
(***************************************************************************)
MaxChunks == 3

\* summary_dict.get("summary", "") of chunk i, or the fallback of lines 407-409
SummaryOfChunk(i, state) ==
    IF state = "returned" THEN <<"summary", i>> ELSE <<"fallback", i>>

Collected == {i \in DOMAIN futures : futures[i].taken > 0}

\* chunk_summaries.sort(): pairs (chunk_idx, summary), chunk_idx first
RECURSIVE InsertByIndex(_, _)
InsertByIndex(sorted, pair) ==
    IF sorted = <<>> THEN <<pair>>
    ELSE IF sorted[Len(sorted)][1] <= pair[1] THEN Append(sorted, pair)
    ELSE Append(InsertByIndex(SubSeq(sorted, 1, Len(sorted) - 1), pair),
                sorted[Len(sorted)])

RECURSIVE SortByIndex(_)
SortByIndex(pairs) ==
    IF pairs = <<>> THEN <<>>
    ELSE InsertByIndex(SortByIndex(SubSeq(pairs, 1, Len(pairs) - 1)), pairs[Len(pairs)])

\* the pairs left in the order in which the futures completed
InCompletionOrder(pairs) == pairs

\* line 413
SortedSummaries(pairs) == SortByIndex(pairs)

\* " ".join([summary for _, summary in chunk_summaries])
Joined(pairs) == [k \in DOMAIN pairs |-> pairs[k][2]]

InitLong ==
    /\ JobScheduled
    /\ platform = "unix"
    /\ HF_ACCESS_TOKEN = FALSE
    /\ MergeIdle
    /\ EnforceIdle
    /\ ChunksIdle
    /\ JobsIdle
    /\ LazyIdle
    /\ TrimIdle
    /\ chunks \in 2 .. MaxChunks
    /\ futures = [i \in 1 .. chunks |-> [state |-> "running", taken |-> 0]]
    /\ chunk_summaries = <<>>
    /\ intermediate_summary = <<>>
    /\ lpc = "as_completed"

longFrame == <<jobVars, lastPoll, mergeVars, enforceVars, chunkVars, jobsVars,
               lazyVars, trimVars>>

\* a worker thread finishes self._summarize_chunk(chunk): it returns or raises
summarize_chunk_done ==
    /\ \E i \in DOMAIN futures, o \in {"returned", "raised"} :
          /\ futures[i].state = "running"
          /\ futures' = [futures EXCEPT ![i].state = o]
    /\ UNCHANGED <<longFrame, chunks, chunk_summaries, intermediate_summary, lpc>>

\* one turn of `for future in as_completed(future_to_chunk)`: any future that
\* is done and has not been yielded yet             lines 398-410
as_completed ==
    /\ lpc = "as_completed"
    /\ \E i \in DOMAIN futures :
          /\ futures[i].state # "running"
          /\ futures[i].taken = 0
          /\ futures' = [futures EXCEPT ![i].taken = Cardinality(Collected) + 1]
          /\ chunk_summaries' =
                Append(chunk_summaries, <<i, SummaryOfChunk(i, futures[i].state)>>)
    /\ UNCHANGED <<longFrame, chunks, intermediate_summary, lpc>>

\* the loop has ended: lines 413-414
join_summaries ==
    /\ lpc = "as_completed"
    /\ Collected = DOMAIN futures
    /\ chunk_summaries' = SortedSummaries(chunk_summaries)
    /\ intermediate_summary' = Joined(SortedSummaries(chunk_summaries))
    /\ lpc' = "joined"
    /\ UNCHANGED <<longFrame, chunks, futures>>

NextLong ==
    \/ summarize_chunk_done
    \/ as_completed
    \/ join_summaries

SpecLong == InitLong /\ [][NextLong]_vars

\* C20: whatever the order in which the calls complete, every chunk has at most
\* one pair in chunk_summaries, and the joined text is the chunks' summaries (the
\* result, or the fallback of a call that raised) in chunk order.
C20_OrderedAssembly ==
    /\ \A j, k \in DOMAIN chunk_summaries :
          chunk_summaries[j][1] = chunk_summaries[k][1] => j = k
    /\ (lpc = "joined") =>
          intermediate_summary =
              [i \in 1 .. chunks |-> SummaryOfChunk(i, futures[i].state)]

\* C20 witness: three chunks completed in reverse order, one of them raised, and
\* the summaries have been joined.
C20_Witness ==
    /\ lpc = "joined"
    /\ chunks = 3
    /\ futures[3].taken = 1
    /\ futures[2].taken = 2
    /\ futures[2].state = "raised"

(***************************************************************************)
(* Two jobs of one server process              app.py 128-147, 238-241,    *)
(*                                             337-588                     *)
(* process_audio_file is a coroutine that never awaits: once the event     *)
(* loop has started a job, no other job runs until it returns.  The        *)
(* SIGALRM handler and alarm that time_limit sets belong to the process.   *)
(***************************************************************************)
Jobs == {"job1", "job2"}
StageOrder == <<"diarization", "topics", "summarization">>

Queued == [at |-> "queued", stage |-> 0]
Inside(k) == [at |-> "inside", stage |-> k]
After(k) == [at |-> "after", stage |-> k]
Returned == [at |-> "returned", stage |-> Len(StageOrder)]

NoAlarm == [pending |-> FALSE, by |-> "none", stage |-> 0, armers |-> {}]

\* a coroutine that yields to the event loop between its steps
MayRunAnyTime(j) == TRUE

\* the event loop runs job j's next step: no other job is in progress
MayRun(j) == running \in {"none", j}

\* signal.signal(SIGALRM, signal_handler); signal.alarm(seconds): replaces
\* whatever alarm was pending in the process
Armed(j, k) ==
    [pending |-> TRUE, by |-> j, stage |-> k, armers |-> sigalrm.armers \cup {j}]

\* signal.alarm(0): cancels whatever alarm is pending in the process
Cancelled == [sigalrm EXCEPT !.pending = FALSE]

InitJobs ==
    /\ JobScheduled
    /\ platform = "unix"
    /\ HF_ACCESS_TOKEN = FALSE
    /\ MergeIdle
    /\ EnforceIdle
    /\ ChunksIdle
    /\ LongIdle
    /\ LazyIdle
    /\ TrimIdle
    /\ running = "none"
    /\ jpc = [j \in Jobs |-> Queued]
    /\ sigalrm = NoAlarm
    /\ jrecord = [j \in Jobs |-> [k \in DOMAIN StageOrder |-> "none"]]
    /\ jfired = [j \in Jobs |-> {}]

jobsFrame == <<jobVars, lastPoll, mergeVars, enforceVars, chunkVars, longVars,
               lazyVars, trimVars>>

\* with time_limit(...): of the next stage is entered
enter_stage ==
    /\ \E j \in Jobs :
          /\ MayRun(j)
          /\ jpc[j].at \in {"queued", "after"}
          /\ jpc[j].stage < Len(StageOrder)
          /\ jpc' = [jpc EXCEPT ![j] = Inside(jpc[j].stage + 1)]
          /\ sigalrm' = Armed(j, jpc[j].stage + 1)
          /\ running' = j
    /\ UNCHANGED <<jobsFrame, jrecord, jfired>>

\* the body of the stage ends before the deadline; finally: signal.alarm(0)
leave_stage ==
    /\ \E j \in Jobs :
          /\ MayRun(j)
          /\ jpc[j].at = "inside"
          /\ jrecord' = [jrecord EXCEPT ![j][jpc[j].stage] = "ok"]
          /\ jpc' = [jpc EXCEPT ![j] = After(jpc[j].stage)]
          /\ running' = j
    /\ sigalrm' = Cancelled
    /\ UNCHANGED <<jobsFrame, jfired>>

\* SIGALRM is delivered: signal_handler raises TimeoutError in the code the
\* main thread is executing, the stage of the job in progress; its except
\* TimeoutError clause records the timeout, finally: signal.alarm(0)
alarm_fires ==
    /\ sigalrm.pending
    /\ running # "none"
    /\ jpc[running].at = "inside"
    /\ jfired' = [jfired EXCEPT ![sigalrm.by] = @ \cup {sigalrm.stage}]
    /\ jrecord' = [jrecord EXCEPT ![running][jpc[running].stage] = "timed_out"]
    /\ jpc' = [jpc EXCEPT ![running] = After(jpc[running].stage)]
    /\ sigalrm' = Cancelled
    /\ UNCHANGED <<jobsFrame, running>>

\* the final save and the return of process_audio_file
return_job ==
    /\ \E j \in Jobs :
          /\ MayRun(j)
          /\ jpc[j] = After(Len(StageOrder))
          /\ jpc' = [jpc EXCEPT ![j] = Returned]
    /\ running' = "none"
    /\ UNCHANGED <<jobsFrame, sigalrm, jrecord, jfired>>

NextJobs ==
    \/ enter_stage
    \/ leave_stage
    \/ alarm_fires
    \/ return_job

SpecJobs == InitJobs /\ [][NextJobs]_vars

NonConforming == {"raise", "str", "str_error", "other_type"}
GatePath == {"gate", "gate_save", "gate_dump", "exc_handler", "exc_dump", "done"}

\* C23 as stated: whenever the transcriber raises or returns something that is
\* no dictionary, the transcript becomes an error marker, the segments list
\* becomes empty, and the job is persisted and ended at the transcript gate.
C23_AlwaysErrorMarker ==
    (transcribeRet \in NonConforming) =>
        /\ StartsWithError(results.transcript)
        /\ results.segments = EmptySegments
        /\ pc \in GatePath

\* C23 amended: when the transcriber raises or returns a value that is neither a
\* dictionary nor a string, the transcript becomes an error marker, the segments
\* list becomes empty and the job ends at the transcript gate, where that record
\* is saved; a returned string is stored as the transcript unchanged, with an
\* empty segments list, and the job ends at the gate only if that string is
\* empty or begins with "Error:" -- otherwise it goes on to the later stages.
C23_NonConformingOutput ==
    /\ (transcribeRet \in {"raise", "other_type", "str_error"}) =>
          /\ StartsWithError(results.transcript)
          /\ results.segments = EmptySegments
          /\ pc \in GatePath
          /\ invoked \cap Downstream = {}
          /\ (Persisted /\ file.by # "handler") =>
                (file.by = "gate" /\ file.content = results)
    /\ (transcribeRet = "str") =>
          /\ results.transcript.tag = "text"
          /\ results.transcript.words \in WordCounts
          /\ results.segments = EmptySegments
          /\ pc # "gate_save"
          /\ file.by # "gate"
          /\ "diarizer" \notin invoked
          /\ Present(results.diarization) =>
                results.diarization =
                    IF HF_ACCESS_TOKEN THEN "err_no_segments" ELSE "err_no_token"

\* C23 witness: the transcriber returned a value of an unexpected type and the
\* record saved at the gate carries the error marker.
C23_Witness ==
    /\ Done
    /\ transcribeRet = "other_type"
    /\ Persisted
    /\ file.by = "gate"
    /\ file.content.transcript = ErrorMarker("unexpected_type")
    /\ file.content.segments = EmptySegments

ShortValid(r) == ~NoValidTranscript(r.transcript) /\ r.transcript.tag = "text"
                    /\ TooShort(r.transcript)
AtThreshold(r) == ~NoValidTranscript(r.transcript) /\ r.transcript.tag = "text"
                     /\ r.transcript.words = MinWords

C27_SentinelIsNoFailure ==
    /\ (pc = "diar_exit") => diarRet \in DiarizeReturns
    /\ (pc = "diar_exit" /\ pipeline = "none") => diarRet = "sentinel"
    /\ (diarRet = "sentinel") =>
          /\ results.status = "completed"
          /\ results.error = "None"
          /\ results.diarization \in {"err_invalid_format", "err_timed_out"}
          /\ pc \notin {"gate_save", "gate_dump", "early_save", "early_dump"}
          /\ file.by \in {"nobody", "final", "handler"}
          /\ Done =>
                /\ Present(results.topics)
                /\ Present(results.abstractive_summary)
                /\ Present(results.extractive_summary)
                /\ \/ Persisted /\ file.by = "final" /\ file.content = results
                   \/ file.by = "handler"
                   \/ excWriteFailed
                /\ (~TooShort(results.transcript) /\ expiredAt # "summ_check") =>
                      {"extractive", "abstractive"} \subseteq invoked

\* C27 witness: the diarizer had no pipeline and returned the sentinel; topics
\* and summaries were produced and the final record is persisted.
C27_Witness ==
    /\ Done
    /\ diarRet = "sentinel"
    /\ Persisted
    /\ file.by = "final"
    /\ file.content.diarization = "err_invalid_format"
    /\ file.content.topics = "detected"
    /\ file.content.abstractive_summary = "result"
    /\ file.content.extractive_summary = "result"

\* C28: when the gates pass and the diarizer returns its list (segments or the
\* sentinel) the record gets diarization = {error: "Invalid diarization result
\* format"} and keeps the transcription's segments; no record ever holds a value
\* produced by the diarizer, since only a dictionary would be stored and diarize
\* returns none.
C28_ListIsInvalidFormat ==
    /\ (pc = "diar_exit") =>
          /\ diarRet \in {"sentinel", "segments"}
          /\ results.diarization = "err_invalid_format"
          /\ results.segments.src = "transcriber"
    /\ (diarRet # "none" /\ ~diarExpired /\ StageOf(pc) # "diarization") =>
          results.diarization = "err_invalid_format"
    /\ results.diarization \notin {"diarizer_dict", "diarizer_list"}
    /\ results.segments.src # "diarizer"
    /\ Persisted =>
          /\ file.content.diarization \notin {"diarizer_dict", "diarizer_list"}
          /\ file.content.segments.src # "diarizer"

\* C28 witness: the diarizer returned real segments within the deadline and the
\* persisted record says "Invalid diarization result format".
C28_Witness ==
    /\ Done
    /\ Persisted
    /\ file.by = "final"
    /\ diarRet = "segments"
    /\ ~diarExpired
    /\ file.content.diarization = "err_invalid_format"
    /\ file.content.segments = TranscriptSegments(MinSegments, MinDuration)

(***************************************************************************)
(* The merge sweep and the single-speaker split, turn by turn              *)
(***************************************************************************)
\* two consecutive turns that belong to one output segment
SameSpeakerClose(a, b) == a.speaker = b.speaker /\ b.start - a.end <= collar

\* positions, in the sorted turns t, at which an output segment begins
GroupFirsts(t) ==
    IF t = <<>> THEN {}
    ELSE {1} \cup {i + 1 : i \in {j \in 1 .. Len(t) - 1 : ~SameSpeakerClose(t[j], t[j + 1])}}
NthFirst(t, k) ==
    CHOOSE a \in GroupFirsts(t) : Cardinality({b \in GroupFirsts(t) : b <= a}) = k
GroupLast(t, k) ==
    IF k = Cardinality(GroupFirsts(t)) THEN Len(t) ELSE NthFirst(t, k + 1) - 1

\* no two turns of one speaker overlap
OwnTurnsDisjoint(t) ==
    \A i, j \in DOMAIN t :
        (i < j /\ t[i].speaker = t[j].speaker) => t[i].end <= t[j].start

C26_SplitOnPauses ==
    (epc = "enforced" /\ Cardinality(SpeakersOf(segments)) = 1) =>
        LET t == SortByStart(segments)
            original == segments[1].speaker
        IN  /\ Len(enforced) = Len(t)
            /\ \A i \in DOMAIN t :
                  /\ enforced[i].start = t[i].start
                  /\ enforced[i].end = t[i].end
            /\ enforced[1].speaker = original
            /\ \A i \in 1 .. Len(t) - 1 :
                  (enforced[i].speaker # enforced[i + 1].speaker)
                      <=> (t[i + 1].start - t[i].end > PauseGap)
            /\ Cardinality(SpeakersOf(enforced)) <= 2
            /\ SpeakersOf(enforced) \subseteq
                  {original, IF original # "Speaker 2" THEN "Speaker 2" ELSE "Speaker 1"}

\* C26 witness: three segments of "Speaker 2" alone, given out of order, two
\* of them overlapping (no switch) and a silence of 0.51 s (switch).
C26_Witness ==
    /\ epc = "enforced"
    /\ SpeakersOf(segments) = {"Speaker 2"}
    /\ ~SortedByStart(segments)
    /\ Len(enforced) = 3
    /\ enforced[1].speaker = "Speaker 2"
    /\ SpeakersOf(enforced) = {"Speaker 1", "Speaker 2"}
    /\ \E i \in 1 .. Len(enforced) - 1 :
          /\ enforced[i + 1].start - enforced[i].end <= PauseGap
          /\ enforced[i + 1].speaker = enforced[i].speaker
    /\ \E i \in 1 .. Len(enforced) - 1 :
          /\ enforced[i + 1].start - enforced[i].end = PauseGap + 1
          /\ enforced[i + 1].speaker # enforced[i].speaker

(***************************************************************************)
(* The chunk loop: failed chunks and the speaker mapping                   *)
(***************************************************************************)
\* the chunks the loop has been through without an exception
Succeeded == (1 .. chunk_i - 1) \ chunk_failed

\* C21: a chunk on which the pipeline raises contributes no segment, the loop
\* goes on with the next chunk, and the list returned is the offset, relabelled
\* and merged segments of exactly the chunks that succeeded -- the empty list
\* when every chunk failed.
C21_FailedChunkSkipped ==
    /\ (cpc = "whole") =>
          /\ chunk_failed \subseteq 1 .. chunk_i - 1
          /\ all_segments = MapSpeakers(ChunkSegments(turns, relabel, 1, Succeeded))
    /\ (cpc = "chunked") =>
          /\ chunk_i = ChunkCount + 1
          /\ all_segments = ProcessChunks(turns, relabel, Succeeded)
          /\ (chunk_failed = 1 .. ChunkCount) => all_segments = <<>>

\* C21 witness: the pipeline raised on the first chunk, in which somebody
\* speaks, and the list returned holds the segments of the second chunk.
C21_Witness ==
    /\ cpc = "chunked"
    /\ chunk_failed = {1}
    /\ ChunkResult(turns, relabel, 1) # <<>>
    /\ all_segments # <<>>
    /\ \A i \in DOMAIN all_segments : all_segments[i].start >= ChunkEdges[2]

\* C22: one speaker mapping serves all chunks: a chunk-local label gets its
\* global name the first time it is seen and keeps it, so the same label has
\* the same global name in every chunk; different labels have different global
\* names; and the names are "Speaker 1" .. "Speaker n" in order of first
\* appearance.
C22_FirstSeenWins ==
    /\ [](cpc \in {"whole", "chunked"} =>
            LET seen == ChunkSegments(turns, relabel, 1, Succeeded)
            IN  /\ DOMAIN speaker_mapping = SpeakersOf(seen)
                /\ \A l \in DOMAIN speaker_mapping :
                      speaker_mapping[l] = MappedSpeaker(seen, l)
                /\ \A a, b \in DOMAIN speaker_mapping :
                      a # b => speaker_mapping[a] # speaker_mapping[b]
                /\ {speaker_mapping[l] : l \in DOMAIN speaker_mapping}
                      = {SpeakerNames[k] : k \in 1 .. Cardinality(DOMAIN speaker_mapping)}
                /\ (cpc = "whole") =>
                      /\ Len(all_segments) = Len(seen)
                      /\ \A i \in DOMAIN seen :
                            all_segments[i].speaker = speaker_mapping[seen[i].speaker])
    /\ [][\A l \in DOMAIN speaker_mapping :
             /\ l \in DOMAIN speaker_mapping'
             /\ speaker_mapping'[l] = speaker_mapping[l]]_vars

\* C22 witness: two chunks went through; the label "Speaker 2" was seen first
\* and is "Speaker 1" globally, "Speaker 1" is "Speaker 2", and the second
\* chunk, where "Speaker 1" occurs again, got the name given in the first.
C22_Witness ==
    /\ cpc = "chunked"
    /\ chunk_failed = {}
    /\ DOMAIN speaker_mapping = {"Speaker 1", "Speaker 2"}
    /\ speaker_mapping["Speaker 2"] = "Speaker 1"
    /\ speaker_mapping["Speaker 1"] = "Speaker 2"
    /\ SpeakersOf(ChunkResult(turns, relabel, 1)) = {"Speaker 1", "Speaker 2"}
    /\ SpeakersOf(ChunkResult(turns, relabel, 2)) = {"Speaker 1"}
    /\ \E i \in DOMAIN all_segments :
          /\ all_segments[i].start >= ChunkEdges[2]
          /\ all_segments[i].speaker = "Speaker 2"

(***************************************************************************)
(* AbstractiveSummarizer.tokenizer / .model: the lazy loads                *)
(*                                      summarization.py 200-234, 428-486  *)
(* The worker threads of _summarize_long_text (395-396) all run            *)
(* _summarize_chunk on the same AbstractiveSummarizer; summarize() has not *)
(* touched the tokenizer or the model before it hands a long text over     *)
(* (247-267), and __init__ discards the tokenizer it loads (195).          *)
(***************************************************************************)
MaxWorkers == 2

Tasks == 1 .. MaxWorkers

\* the calls a pool thread is executing
Active == {t \in Tasks : wpc[t] \notin {"queued", "done"}}

InitLazy ==
    /\ JobScheduled
    /\ platform = "unix"
    /\ HF_ACCESS_TOKEN = FALSE
    /\ MergeIdle
    /\ EnforceIdle
    /\ ChunksIdle
    /\ JobsIdle
    /\ LongIdle
    /\ TrimIdle
    /\ max_workers \in 1 .. MaxWorkers
    /\ chunk_long \in [Tasks -> BOOLEAN]
    /\ wpc = [t \in Tasks |-> "queued"]
    /\ self_tokenizer = "None"
    /\ self_model = "None"
    /\ self_model_available = TRUE
    /\ tokenizer_loads = 0
    /\ model_loads = 0

lazyFrame == <<jobVars, lastPoll, mergeVars, enforceVars, chunkVars, jobsVars,
               longVars, trimVars, max_workers, chunk_long>>

\* a pool thread takes a submitted call; line 440 returns a short chunk as it is
summarize_chunk ==
    /\ \E t \in Tasks :
          /\ wpc[t] = "queued"
          /\ Cardinality(Active) < max_workers
          /\ wpc' = [wpc EXCEPT ![t] = IF chunk_long[t] THEN "encode" ELSE "done"]
    /\ UNCHANGED <<lazyFrame, self_tokenizer, self_model, self_model_available,
                   tokenizer_loads, model_loads>>

\* self.tokenizer at lines 447 and 469: the test of line 225, and the return of
\* line 234 when nothing is to be loaded (None makes .encode raise, which the
\* except clause of line 477 turns into the fallback summary).  At line 469
\* the thread has been given a tokenizer at line 447, so nothing is loaded.
tokenizer ==
    /\ \E t \in Tasks :
          /\ wpc[t] \in {"encode", "decode"}
          /\ wpc' = [wpc EXCEPT ![t] =
                        IF wpc[t] = "decode" THEN "done"
                        ELSE IF self_tokenizer = "None" /\ self_model_available
                        THEN "tokenizer_load"
                        ELSE IF self_tokenizer = "None" THEN "done"
                        ELSE "generate"]
    /\ UNCHANGED <<lazyFrame, self_tokenizer, self_model, self_model_available,
                   tokenizer_loads, model_loads>>

\* T5Tokenizer.from_pretrained(self.model_name), line 228, or its failure,
\* lines 230-232
tokenizer_from_pretrained ==
    /\ \E t \in Tasks, ok \in BOOLEAN :
          /\ wpc[t] = "tokenizer_load"
          /\ IF ok
             THEN /\ tokenizer_loads' = tokenizer_loads + 1
                  /\ wpc' = [wpc EXCEPT ![t] = "tokenizer_assign"]
                  /\ UNCHANGED self_model_available
             ELSE /\ self_model_available' = FALSE
                  /\ wpc' = [wpc EXCEPT ![t] =
                                IF self_tokenizer = "None" THEN "done" ELSE "generate"]
                  /\ UNCHANGED tokenizer_loads
    /\ UNCHANGED <<lazyFrame, self_tokenizer, self_model, model_loads>>

\* self._tokenizer = <the loaded tokenizer>, line 228, and the return
tokenizer_assign ==
    /\ \E t \in Tasks :
          /\ wpc[t] = "tokenizer_assign"
          /\ self_tokenizer' = "loaded"
          /\ wpc' = [wpc EXCEPT ![t] = "generate"]
    /\ UNCHANGED <<lazyFrame, self_model, self_model_available, tokenizer_loads,
                   model_loads>>

\* self.model at line 460: the test of line 203 and the return of line 220
model ==
    /\ \E t \in Tasks :
          /\ wpc[t] = "generate"
          /\ wpc' = [wpc EXCEPT ![t] =
                        IF self_model = "None" /\ self_model_available THEN "model_load"
                        ELSE IF self_model = "None" THEN "done"
                        ELSE "decode"]
    /\ UNCHANGED <<lazyFrame, self_tokenizer, self_model, self_model_available,
                   tokenizer_loads, model_loads>>

\* T5ForConditionalGeneration.from_pretrained(self.model_name), line 206, or
\* its failure, lines 216-218
model_from_pretrained ==
    /\ \E t \in Tasks, ok \in BOOLEAN :
          /\ wpc[t] = "model_load"
          /\ IF ok
             THEN /\ model_loads' = model_loads + 1
                  /\ wpc' = [wpc EXCEPT ![t] = "model_assign"]
                  /\ UNCHANGED self_model_available
             ELSE /\ self_model_available' = FALSE
                  /\ wpc' = [wpc EXCEPT ![t] =
                                IF self_model = "None" THEN "done" ELSE "decode"]
                  /\ UNCHANGED model_loads
    /\ UNCHANGED <<lazyFrame, self_tokenizer, self_model, tokenizer_loads>>

\* self._model = <the loaded model>, lines 206-213, and the return
model_assign ==
    /\ \E t \in Tasks :
          /\ wpc[t] = "model_assign"
          /\ self_model' = "loaded"
          /\ wpc' = [wpc EXCEPT ![t] = "decode"]
    /\ UNCHANGED <<lazyFrame, self_tokenizer, self_model_available, tokenizer_loads,
                   model_loads>>

NextLazy ==
    \/ summarize_chunk
    \/ tokenizer
    \/ tokenizer_from_pretrained
    \/ tokenizer_assign
    \/ model
    \/ model_from_pretrained
    \/ model_assign

SpecLazy == InitLazy /\ [][NextLazy]_vars

\* C29 as stated: for one AbstractiveSummarizer the tokenizer and the model are
\* each loaded at most once, however the worker threads interleave.
C29_LoadedAtMostOnce == tokenizer_loads <= 1 /\ model_loads <= 1

(***************************************************************************)
(* AudioProcessor.trim_audio            audio_processing.py 301-342, 120-157 *)
(* Times are whole seconds.                                                *)
(***************************************************************************)
MaxTime == 3

TrimTimes == -1 .. MaxTime
Durations == 1 .. MaxTime

InitTrim ==
    /\ JobScheduled
    /\ platform = "unix"
    /\ HF_ACCESS_TOKEN = FALSE
    /\ MergeIdle
    /\ EnforceIdle
    /\ ChunksIdle
    /\ JobsIdle
    /\ LongIdle
    /\ LazyIdle
    /\ tpc = "called"
    /\ file_exists \in BOOLEAN
    /\ start_time \in TrimTimes
    /\ end_time \in TrimTimes
    /\ duration \in Durations
    /\ probed = FALSE
    /\ trim_calls = <<>>
    /\ trim_error = "none"

trimFrame == <<jobVars, lastPoll, mergeVars, enforceVars, chunkVars, jobsVars,
               longVars, lazyVars, file_exists, duration>>

\* lines 314-334: the existence test, the clamp of start_time, and the inner
\* try: probe, clamp of end_time, `raise ValueError` -- which the
\* `except Exception` of line 333 catches and logs as a warning
trim_audio ==
    /\ tpc = "called"
    /\ IF ~file_exists
       THEN /\ trim_error' = "FileNotFoundError"
            /\ tpc' = "raised"
            /\ UNCHANGED <<start_time, end_time, probed>>
       ELSE /\ start_time' = IF start_time < 0 THEN 0 ELSE start_time
            /\ \E probe_ok \in BOOLEAN :
                  /\ probed' = probe_ok
                  /\ end_time' = IF probe_ok /\ end_time > duration THEN duration
                                 ELSE end_time
            /\ tpc' = "checked"
            /\ UNCHANGED trim_error
    /\ UNCHANGED <<trimFrame, trim_calls>>

\* line 337, self.trim(file_path, start_time, end_time): ffmpeg is run on the
\* range; its failure is logged and re-raised (155-157, 340-342)
trim ==
    /\ tpc = "checked"
    /\ trim_calls' = Append(trim_calls, <<start_time, end_time>>)
    /\ \E ok \in BOOLEAN :
          IF ok THEN /\ tpc' = "returned"
                     /\ UNCHANGED trim_error
          ELSE /\ tpc' = "raised"
               /\ trim_error' = "ffmpeg.Error"
    /\ UNCHANGED <<trimFrame, start_time, end_time, probed>>

NextTrim ==
    \/ trim_audio
    \/ trim

SpecTrim == InitTrim /\ [][NextTrim]_vars

\* C30 as stated: for an existing file whose duration was read, when after the
\* clamps start_time >= end_time the call fails with "Start time must be less
\* than end time" and the internal trim is never invoked.
C30_InvalidRangeRejected ==
    (tpc # "called" /\ file_exists /\ probed /\ start_time >= end_time) =>
        /\ tpc = "raised"
        /\ trim_error = "ValueError"
        /\ trim_calls = <<>>

=============================================================================
